---- MODULE Spec2Model ----
(***************************************************************************)
(* Lifecycle of a disposable redis-server test fixture (package redistest, *)
(* src/redistest.go): Start, Stop, Freeze, Continue, findBinPath, retry    *)
(* and abort, together with the operating-system objects they act on: the  *)
(* temporary directory, the child process and its two output pipes.        *)
(*                                                                         *)
(* Every caller t owns one *Redis handle.  Start and Stop block on the     *)
(* child (the probe loop, cmd.Wait), so each is a sequence of steps under  *)
(* pc[t]; the child runs concurrently through the Proc* actions.           *)
(*                                                                         *)
(* Library facts used (os, os/exec):                                       *)
(*  - cmd.Process is nil until cmd.Start succeeds; a method that reads a   *)
(*    field through a nil pointer panics;                                  *)
(*  - Process.Signal fails once the process has been waited for;           *)
(*  - cmd.Wait reaps the child, closes the read ends handed out by         *)
(*    StdoutPipe/StderrPipe and reports a non-zero exit as an error;       *)
(*  - a failed cmd.Start closes the pipes it was given;                    *)
(*  - reading a closed file yields no data and an error.                   *)
(***************************************************************************)
EXTENDS Integers, Sequences, FiniteSets

\* ---------------------------------------------------------------- bounds
\* names ioutil.TempDir can choose from
MaxDirs == 2
\* the attempts Start gives retry (1000 in the source, scaled down here)
ProbeAttempts == 2
\* bytes the child writes to each of its streams
MaxOut == 1
\* calls of Stop on one handle
MaxStops == 2
\* the largest attempts argument retry is called with on its own
MaxAttempts == 5

\* Handles share nothing but the directory namespace; one owner drives one
\* handle through its whole life.
Callers == {1}
DirNames == 1..MaxDirs
NoDir == 0

VARIABLES
    binOnPath,  \* is redis-server on $PATH (exec.LookPath)
    fs,         \* the temporary directories that exist
    used,       \* the names ioutil.TempDir has handed out
    pc,         \* pc[t]: where caller t is
    op,         \* op[t]: the call t made last ("none", "Start", "Stop", ...)
    eff,        \* eff[t]: what the call named by op[t] has done, in order
    dir,        \* dir[t]: Start's local dir / s.dir
    res,        \* res[t]: what Start returned, [svc, err]
    msg,        \* msg[t]: the text of the error abort built
    cause,      \* cause[t]: the err handed to abort
    attempts,   \* attempts[t]: retry's counter
    probeOk,    \* probeOk[t]: a PING of the probe loop was answered
    proc,       \* proc[t]: the child process
    pending,    \* pending[t]: SIGINT delivered, not yet acted upon
    exitCode,   \* exitCode[t]: the child's exit status
    written,    \* written[t]: bytes the child wrote, [out, err]
    stderr,     \* stderr[t]: the pipe's read end, [fd, closes]
    stdout,     \* stdout[t]
    stops,      \* stops[t]: calls of Stop so far
    stopRet,    \* stopRet[t]: what the last Stop returned
    rt          \* a call of retry on its own: [arg, attempts, log, ret]

vars == <<binOnPath, fs, used, pc, op, eff, dir, res, msg, cause, attempts,
          probeOk, proc, pending, exitCode, written, stderr, stdout, stops,
          stopRet, rt>>

callerVars == <<pc, op, eff, dir, res, msg, cause, attempts, probeOk, stops,
                stopRet>>
streamVars == <<stderr, stdout>>
procVars == <<proc, pending, exitCode, written>>
envVars == <<binOnPath, fs, used, rt>>

\* ----------------------------------------------------------------- values
NoStream == [fd |-> "none", closes |-> 0]
NoMsg == [desc |-> "", cause |-> "", out |-> 0, err |-> 0]
NoRes == [svc |-> FALSE, err |-> "unset"]
NoRetry == [arg |-> 0, attempts |-> 0, log |-> <<>>, ret |-> "idle"]

\* ------------------------------------------------------- library operators
\* os.Pipe via cmd.StderrPipe / cmd.StdoutPipe
OpenPipe == [fd |-> "open", closes |-> 0]

\* ReadCloser.Close as this package calls it
Close(s) == [fd |-> "closed", closes |-> s.closes + 1]

\* what cmd.Wait and a failed cmd.Start do to a pipe they own
LibClose(s) == IF s.fd = "none" THEN s ELSE [s EXCEPT !.fd = "closed"]

\* ioutil.ReadAll on a pipe holding n bytes; the error is dropped
ReadAll(s, n) == IF s.fd = "open" THEN n ELSE 0

\* Process.Signal: the error it returns
SignalFails(p) == p = "reaped"

\* the process after kill(pid, SIGINT)
Alive(p) == p \in {"starting", "listening", "frozen"}

\* RemoveAll that removes nothing
RemoveAll_Skip(d) == fs

\* os.RemoveAll(d): the directories left
RemoveAll(d) == fs \ {d}

\* conn.Do("PING") on a connection dialled through the pool
PingOk(p) == p = "listening"

\* retry that reports success when the budget runs out
RetryStep_Swallow(ok, n) ==
    IF ok THEN "return_nil"
    ELSE IF n - 1 <= 0 THEN "return_nil"
    ELSE "sleep"

\* retry that tests the budget before it counts the failed attempt
RetryStep_OffByOne(ok, n) ==
    IF ok THEN "return_nil"
    ELSE IF n <= 0 THEN "return_err"
    ELSE "sleep"

\* one pass of retry's loop body: fn returned ok (err == nil) with n attempts
\* left; the loop returns nil, returns err, or sleeps and goes round again
RetryStep(ok, n) ==
    IF ok THEN "return_nil"
    ELSE IF n - 1 <= 0 THEN "return_err"
    ELSE "sleep"

\* address := fmt.Sprintf("%s/redis.sock", path.Join(dir, "sock"))
Address(d) == <<d, "sock", "redis.sock">>

\* ------------------------------------------------------------------- Init
Init ==
    /\ binOnPath \in BOOLEAN
    /\ fs = {}
    /\ used = {}
    /\ pc = [t \in Callers |-> "idle"]
    /\ op = [t \in Callers |-> "none"]
    /\ eff = [t \in Callers |-> <<>>]
    /\ dir = [t \in Callers |-> NoDir]
    /\ res = [t \in Callers |-> NoRes]
    /\ msg = [t \in Callers |-> NoMsg]
    /\ cause = [t \in Callers |-> "nil"]
    /\ attempts = [t \in Callers |-> 0]
    /\ probeOk = [t \in Callers |-> FALSE]
    /\ proc = [t \in Callers |-> "none"]
    /\ pending = [t \in Callers |-> FALSE]
    /\ exitCode = [t \in Callers |-> 0]
    /\ written = [t \in Callers |-> [out |-> 0, err |-> 0]]
    /\ stderr = [t \in Callers |-> NoStream]
    /\ stdout = [t \in Callers |-> NoStream]
    /\ stops = [t \in Callers |-> 0]
    /\ stopRet = [t \in Callers |-> "none"]
    /\ rt = NoRetry

\* ------------------------------------------------------------------ Start
\* `return nil, err` of Start
ReturnErr(t, e) ==
    /\ pc' = [pc EXCEPT ![t] = "returned"]
    /\ res' = [res EXCEPT ![t] = [svc |-> FALSE, err |-> e]]

\* Start that makes its directory under a name it does not check for use
StartTempDir_AnyName(t) ==
    /\ pc[t] = "idle"
    /\ op' = [op EXCEPT ![t] = "Start"]
    /\ eff' = [eff EXCEPT ![t] = <<>>]
    /\ \/ /\ ReturnErr(t, "TempDir")
          /\ UNCHANGED <<fs, used, dir>>
       \/ \E d \in DirNames :
            /\ fs' = fs \cup {d}
            /\ used' = used \cup {d}
            /\ dir' = [dir EXCEPT ![t] = d]
            /\ pc' = [pc EXCEPT ![t] = "mkdirSock"]
            /\ UNCHANGED res
    /\ UNCHANGED <<rt, binOnPath, msg, cause, attempts, probeOk, stops, stopRet>>
    /\ UNCHANGED <<procVars, streamVars>>

\* ioutil.TempDir("", "redistest"): a directory under a name never used
StartTempDir(t) ==
    /\ pc[t] = "idle"
    /\ op' = [op EXCEPT ![t] = "Start"]
    /\ eff' = [eff EXCEPT ![t] = <<>>]
    /\ \/ /\ ReturnErr(t, "TempDir")
          /\ UNCHANGED <<fs, used, dir>>
       \/ \E d \in DirNames \ used :
            /\ fs' = fs \cup {d}
            /\ used' = used \cup {d}
            /\ dir' = [dir EXCEPT ![t] = d]
            /\ pc' = [pc EXCEPT ![t] = "mkdirSock"]
            /\ UNCHANGED res
    /\ UNCHANGED <<rt, binOnPath, msg, cause, attempts, probeOk, stops, stopRet>>
    /\ UNCHANGED <<procVars, streamVars>>

\* os.MkdirAll(sockDir, 0711)
StartMkdirSock(t) ==
    /\ pc[t] = "mkdirSock"
    /\ \/ ReturnErr(t, "MkdirAll")
       \/ /\ pc' = [pc EXCEPT ![t] = "writeConfig"]
          /\ UNCHANGED res
    /\ UNCHANGED <<op, eff, dir, msg, cause, attempts, probeOk, stops, stopRet>>
    /\ UNCHANGED <<envVars, procVars, streamVars>>

\* ioutil.WriteFile(configFile, ...)
StartWriteConfig(t) ==
    /\ pc[t] = "writeConfig"
    /\ \/ ReturnErr(t, "WriteFile")
       \/ /\ pc' = [pc EXCEPT ![t] = "findBin"]
          /\ UNCHANGED res
    /\ UNCHANGED <<op, eff, dir, msg, cause, attempts, probeOk, stops, stopRet>>
    /\ UNCHANGED <<envVars, procVars, streamVars>>

\* exec.LookPath("redis-server"): the error, if any
findBinPath == IF binOnPath THEN "nil" ELSE "NotFound"

StartFindBin(t) ==
    /\ pc[t] = "findBin"
    /\ IF findBinPath # "nil"
         THEN ReturnErr(t, findBinPath)
         ELSE /\ pc' = [pc EXCEPT ![t] = "stderrPipe"]
              /\ UNCHANGED res
    /\ UNCHANGED <<op, eff, dir, msg, cause, attempts, probeOk, stops, stopRet>>
    /\ UNCHANGED <<envVars, procVars, streamVars>>

\* cmd.StderrPipe()
StartStderrPipe(t) ==
    /\ pc[t] = "stderrPipe"
    /\ \/ /\ ReturnErr(t, "StderrPipe")
          /\ UNCHANGED stderr
       \/ /\ stderr' = [stderr EXCEPT ![t] = OpenPipe]
          /\ pc' = [pc EXCEPT ![t] = "stdoutPipe"]
          /\ UNCHANGED res
    /\ UNCHANGED <<op, eff, dir, msg, cause, attempts, probeOk, stops, stopRet>>
    /\ UNCHANGED <<envVars, procVars, stdout>>

\* cmd.StdoutPipe(); on failure stderr.Close()
StartStdoutPipe(t) ==
    /\ pc[t] = "stdoutPipe"
    /\ \/ /\ ReturnErr(t, "StdoutPipe")
          /\ stderr' = [stderr EXCEPT ![t] = Close(stderr[t])]
          /\ UNCHANGED stdout
       \/ /\ stdout' = [stdout EXCEPT ![t] = OpenPipe]
          /\ pc' = [pc EXCEPT ![t] = "cmdStart"]
          /\ UNCHANGED <<res, stderr>>
    /\ UNCHANGED <<op, eff, dir, msg, cause, attempts, probeOk, stops, stopRet>>
    /\ UNCHANGED <<envVars, procVars>>

\* cmd.Start(); on failure control enters abort("Failed to start Redis", ...)
StartCmdStart(t) ==
    /\ pc[t] = "cmdStart"
    /\ \/ /\ stderr' = [stderr EXCEPT ![t] = LibClose(stderr[t])]
          /\ stdout' = [stdout EXCEPT ![t] = LibClose(stdout[t])]
          /\ cause' = [cause EXCEPT ![t] = "StartFailed"]
          /\ msg' = [msg EXCEPT ![t].desc = "Failed to start Redis"]
          /\ pc' = [pc EXCEPT ![t] = "abortSignal"]
          /\ UNCHANGED <<proc, attempts>>
       \/ /\ proc' = [proc EXCEPT ![t] = "starting"]
          /\ attempts' = [attempts EXCEPT ![t] = ProbeAttempts]
          /\ pc' = [pc EXCEPT ![t] = "probe"]
          /\ UNCHANGED <<stderr, stdout, cause, msg>>
    /\ UNCHANGED <<op, eff, dir, res, probeOk, stops, stopRet>>
    /\ UNCHANGED <<envVars, pending, exitCode, written>>

\* one round of retry(func() error { ... conn.Do("PING") ... }, 1000, 10ms);
\* on success Start builds the Redis value and returns it
StartProbe(t) ==
    /\ pc[t] = "probe"
    /\ LET ok == PingOk(proc[t])
           r == RetryStep(ok, attempts[t])
       IN  /\ probeOk' = [probeOk EXCEPT ![t] = probeOk[t] \/ ok]
           /\ CASE r = "return_nil" ->
                     /\ pc' = [pc EXCEPT ![t] = "returned"]
                     /\ res' = [res EXCEPT ![t] = [svc |-> TRUE, err |-> "nil"]]
                     /\ UNCHANGED <<attempts, cause, msg>>
                [] r = "return_err" ->
                     /\ attempts' = [attempts EXCEPT ![t] = attempts[t] - 1]
                     /\ cause' = [cause EXCEPT ![t] = "PingFailed"]
                     /\ msg' = [msg EXCEPT ![t].desc = "Failed to connect to DB"]
                     /\ pc' = [pc EXCEPT ![t] = "abortSignal"]
                     /\ UNCHANGED res
                [] OTHER ->
                     /\ attempts' = [attempts EXCEPT ![t] = attempts[t] - 1]
                     /\ UNCHANGED <<pc, res, cause, msg>>
    /\ UNCHANGED <<op, eff, dir, stops, stopRet>>
    /\ UNCHANGED <<envVars, procVars, streamVars>>

\* ------------------------------------------------------------------ abort
\* cmd.Process.Signal(os.Interrupt); the error is dropped.  With no process
\* (cmd.Start failed) cmd.Process is nil and the call panics.
AbortSignal(t) ==
    /\ pc[t] = "abortSignal"
    /\ IF proc[t] = "none"
         THEN /\ pc' = [pc EXCEPT ![t] = "panicked"]
              /\ UNCHANGED <<eff, pending>>
         ELSE /\ pending' = [pending EXCEPT ![t] = pending[t] \/ Alive(proc[t])]
              /\ eff' = [eff EXCEPT ![t] = Append(eff[t], "Signal")]
              /\ pc' = [pc EXCEPT ![t] = "abortWait"]
    /\ UNCHANGED <<op, dir, res, msg, cause, attempts, probeOk, stops, stopRet>>
    /\ UNCHANGED <<envVars, proc, exitCode, written, streamVars>>

\* cmd.Wait(): blocks until the child has exited; the error is dropped
AbortWait(t) ==
    /\ pc[t] = "abortWait"
    /\ proc[t] = "zombie"
    /\ proc' = [proc EXCEPT ![t] = "reaped"]
    /\ stderr' = [stderr EXCEPT ![t] = LibClose(stderr[t])]
    /\ stdout' = [stdout EXCEPT ![t] = LibClose(stdout[t])]
    /\ eff' = [eff EXCEPT ![t] = Append(eff[t], "Wait")]
    /\ pc' = [pc EXCEPT ![t] = "abortDrain"]
    /\ UNCHANGED <<op, dir, res, msg, cause, attempts, probeOk, stops, stopRet>>
    /\ UNCHANGED <<envVars, pending, exitCode, written>>

\* abort that reads the streams and leaves them open
AbortDrain_NoClose(t) ==
    /\ pc[t] = "abortDrain"
    /\ LET serr == ReadAll(stderr[t], written[t].err)
           sout == ReadAll(stdout[t], written[t].out)
       IN  msg' = [msg EXCEPT ![t] = [desc |-> msg[t].desc, cause |-> cause[t],
                                      out |-> sout, err |-> serr]]
    /\ eff' = [eff EXCEPT ![t] = eff[t] \o <<"ReadAll(stderr)", "ReadAll(stdout)">>]
    /\ ReturnErr(t, "Abort")
    /\ UNCHANGED <<op, dir, cause, attempts, probeOk, stops, stopRet>>
    /\ UNCHANGED <<envVars, procVars, streamVars>>

\* ReadAll(stderr), ReadAll(stdout), stderr.Close(), stdout.Close(),
\* fmt.Errorf("%s: %s\nOUT: %s\nERR: %s", msg, err, sout, serr)
AbortDrain(t) ==
    /\ pc[t] = "abortDrain"
    /\ LET serr == ReadAll(stderr[t], written[t].err)
           sout == ReadAll(stdout[t], written[t].out)
       IN  msg' = [msg EXCEPT ![t] = [desc |-> msg[t].desc, cause |-> cause[t],
                                      out |-> sout, err |-> serr]]
    /\ stderr' = [stderr EXCEPT ![t] = Close(stderr[t])]
    /\ stdout' = [stdout EXCEPT ![t] = Close(stdout[t])]
    /\ eff' = [eff EXCEPT ![t] = eff[t] \o <<"ReadAll(stderr)", "ReadAll(stdout)",
                                             "Close(stderr)", "Close(stdout)">>]
    /\ ReturnErr(t, "Abort")
    /\ UNCHANGED <<op, dir, cause, attempts, probeOk, stops, stopRet>>
    /\ UNCHANGED <<envVars, procVars>>

\* ------------------------------------------------------------------- Stop
\* Stop without the nil-receiver test
StopCall_NoNilCheck(t) ==
    /\ pc[t] = "returned"
    /\ stops[t] < MaxStops
    /\ stops' = [stops EXCEPT ![t] = stops[t] + 1]
    /\ op' = [op EXCEPT ![t] = "Stop"]
    /\ IF SignalFails(proc[t])
         THEN /\ stopRet' = [stopRet EXCEPT ![t] = "ErrSignal"]
              /\ eff' = [eff EXCEPT ![t] = <<"Signal", "RemoveAll">>]
              /\ fs' = RemoveAll(dir[t])
              /\ UNCHANGED <<pc, pending>>
         ELSE /\ stopRet' = [stopRet EXCEPT ![t] = "none"]
              /\ eff' = [eff EXCEPT ![t] = <<"Signal">>]
              /\ pending' = [pending EXCEPT ![t] = pending[t] \/ Alive(proc[t])]
              /\ pc' = [pc EXCEPT ![t] = "stopWait"]
              /\ UNCHANGED fs
    /\ UNCHANGED <<dir, res, msg, cause, attempts, probeOk>>
    /\ UNCHANGED <<rt, binOnPath, used, proc, exitCode, written, streamVars>>

\* Stop that closes the streams before it returns a failed signal's error
StopCall_CloseOnSigErr(t) ==
    /\ pc[t] = "returned"
    /\ stops[t] < MaxStops
    /\ stops' = [stops EXCEPT ![t] = stops[t] + 1]
    /\ op' = [op EXCEPT ![t] = "Stop"]
    /\ IF ~res[t].svc
         THEN /\ stopRet' = [stopRet EXCEPT ![t] = "nil"]
              /\ eff' = [eff EXCEPT ![t] = <<>>]
              /\ UNCHANGED <<pc, fs, pending, streamVars>>
         ELSE IF SignalFails(proc[t])
         THEN /\ stopRet' = [stopRet EXCEPT ![t] = "ErrSignal"]
              /\ eff' = [eff EXCEPT ![t] = <<"Signal", "Close(stderr)",
                                             "Close(stdout)", "RemoveAll">>]
              /\ stderr' = [stderr EXCEPT ![t] = Close(stderr[t])]
              /\ stdout' = [stdout EXCEPT ![t] = Close(stdout[t])]
              /\ fs' = RemoveAll(dir[t])
              /\ UNCHANGED <<pc, pending>>
         ELSE /\ stopRet' = [stopRet EXCEPT ![t] = "none"]
              /\ eff' = [eff EXCEPT ![t] = <<"Signal">>]
              /\ pending' = [pending EXCEPT ![t] = pending[t] \/ Alive(proc[t])]
              /\ pc' = [pc EXCEPT ![t] = "stopWait"]
              /\ UNCHANGED <<fs, streamVars>>
    /\ UNCHANGED <<dir, res, msg, cause, attempts, probeOk>>
    /\ UNCHANGED <<rt, binOnPath, used, proc, exitCode, written>>

\* Stop that drops the error of Signal and goes on to Wait
StopCall_IgnoreSigErr(t) ==
    /\ pc[t] = "returned"
    /\ stops[t] < MaxStops
    /\ stops' = [stops EXCEPT ![t] = stops[t] + 1]
    /\ op' = [op EXCEPT ![t] = "Stop"]
    /\ IF ~res[t].svc
         THEN /\ stopRet' = [stopRet EXCEPT ![t] = "nil"]
              /\ eff' = [eff EXCEPT ![t] = <<>>]
              /\ UNCHANGED <<pc, fs, pending>>
         ELSE /\ stopRet' = [stopRet EXCEPT ![t] = "none"]
              /\ eff' = [eff EXCEPT ![t] = <<"Signal">>]
              /\ pending' = [pending EXCEPT ![t] = pending[t] \/ Alive(proc[t])]
              /\ pc' = [pc EXCEPT ![t] = "stopWait"]
              /\ UNCHANGED fs
    /\ UNCHANGED <<dir, res, msg, cause, attempts, probeOk>>
    /\ UNCHANGED <<rt, binOnPath, used, proc, exitCode, written, streamVars>>

\* The handle exists once Start has returned: nil after an error.
\* Stop up to and including s.cmd.Process.Signal(os.Interrupt): the nil
\* receiver returns at once; a failed signal returns through the deferred
\* os.RemoveAll(s.dir); otherwise Stop goes on to s.cmd.Wait()
StopCall(t) ==
    /\ pc[t] = "returned"
    /\ stops[t] < MaxStops
    /\ stops' = [stops EXCEPT ![t] = stops[t] + 1]
    /\ op' = [op EXCEPT ![t] = "Stop"]
    /\ IF ~res[t].svc
         THEN /\ stopRet' = [stopRet EXCEPT ![t] = "nil"]
              /\ eff' = [eff EXCEPT ![t] = <<>>]
              /\ UNCHANGED <<pc, fs, pending>>
         ELSE IF SignalFails(proc[t])
         THEN /\ stopRet' = [stopRet EXCEPT ![t] = "ErrSignal"]
              /\ eff' = [eff EXCEPT ![t] = <<"Signal", "RemoveAll">>]
              /\ fs' = RemoveAll(dir[t])
              /\ UNCHANGED <<pc, pending>>
         ELSE /\ stopRet' = [stopRet EXCEPT ![t] = "none"]
              /\ eff' = [eff EXCEPT ![t] = <<"Signal">>]
              /\ pending' = [pending EXCEPT ![t] = pending[t] \/ Alive(proc[t])]
              /\ pc' = [pc EXCEPT ![t] = "stopWait"]
              /\ UNCHANGED fs
    /\ UNCHANGED <<dir, res, msg, cause, attempts, probeOk>>
    /\ UNCHANGED <<rt, binOnPath, used, proc, exitCode, written, streamVars>>

\* Stop whose removal is not deferred: it runs on the clean path only
StopWait_NoDefer(t) ==
    /\ pc[t] = "stopWait"
    /\ proc[t] = "zombie"
    /\ proc' = [proc EXCEPT ![t] = "reaped"]
    /\ IF exitCode[t] # 0
         THEN /\ stopRet' = [stopRet EXCEPT ![t] = "ErrWait"]
              /\ stderr' = [stderr EXCEPT ![t] = LibClose(stderr[t])]
              /\ stdout' = [stdout EXCEPT ![t] = LibClose(stdout[t])]
              /\ eff' = [eff EXCEPT ![t] = eff[t] \o <<"Wait">>]
              /\ UNCHANGED fs
         ELSE /\ stopRet' = [stopRet EXCEPT ![t] = "nil"]
              /\ stderr' = [stderr EXCEPT ![t] = Close(LibClose(stderr[t]))]
              /\ stdout' = [stdout EXCEPT ![t] = Close(LibClose(stdout[t]))]
              /\ eff' = [eff EXCEPT ![t] = eff[t] \o <<"Wait", "Close(stderr)",
                                                       "Close(stdout)", "RemoveAll">>]
              /\ fs' = RemoveAll(dir[t])
    /\ pc' = [pc EXCEPT ![t] = "returned"]
    /\ UNCHANGED <<op, dir, res, msg, cause, attempts, probeOk, stops>>
    /\ UNCHANGED <<rt, binOnPath, used, pending, exitCode, written>>

\* Stop that drops the error of Wait and carries on
StopWait_DropWaitErr(t) ==
    /\ pc[t] = "stopWait"
    /\ proc[t] = "zombie"
    /\ proc' = [proc EXCEPT ![t] = "reaped"]
    /\ stopRet' = [stopRet EXCEPT ![t] = "nil"]
    /\ stderr' = [stderr EXCEPT ![t] = Close(LibClose(stderr[t]))]
    /\ stdout' = [stdout EXCEPT ![t] = Close(LibClose(stdout[t]))]
    /\ eff' = [eff EXCEPT ![t] = eff[t] \o <<"Wait", "Close(stderr)",
                                             "Close(stdout)", "RemoveAll">>]
    /\ fs' = RemoveAll(dir[t])
    /\ pc' = [pc EXCEPT ![t] = "returned"]
    /\ UNCHANGED <<op, dir, res, msg, cause, attempts, probeOk, stops>>
    /\ UNCHANGED <<rt, binOnPath, used, pending, exitCode, written>>

\* Stop from s.cmd.Wait() on: a wait error returns at once; otherwise both
\* streams are closed; the deferred os.RemoveAll(s.dir) runs on both paths
StopWait(t) ==
    /\ pc[t] = "stopWait"
    /\ proc[t] = "zombie"
    /\ proc' = [proc EXCEPT ![t] = "reaped"]
    /\ IF exitCode[t] # 0
         THEN /\ stopRet' = [stopRet EXCEPT ![t] = "ErrWait"]
              /\ stderr' = [stderr EXCEPT ![t] = LibClose(stderr[t])]
              /\ stdout' = [stdout EXCEPT ![t] = LibClose(stdout[t])]
              /\ eff' = [eff EXCEPT ![t] = eff[t] \o <<"Wait", "RemoveAll">>]
         ELSE /\ stopRet' = [stopRet EXCEPT ![t] = "nil"]
              /\ stderr' = [stderr EXCEPT ![t] = Close(LibClose(stderr[t]))]
              /\ stdout' = [stdout EXCEPT ![t] = Close(LibClose(stdout[t]))]
              /\ eff' = [eff EXCEPT ![t] = eff[t] \o <<"Wait", "Close(stderr)",
                                                       "Close(stdout)", "RemoveAll">>]
    /\ fs' = RemoveAll(dir[t])
    /\ pc' = [pc EXCEPT ![t] = "returned"]
    /\ UNCHANGED <<op, dir, res, msg, cause, attempts, probeOk, stops>>
    /\ UNCHANGED <<rt, binOnPath, used, pending, exitCode, written>>

\* -------------------------------------------------------- Freeze, Continue
\* Freeze that sends a signal which does not suspend the child
Freeze_NoStop(t) ==
    /\ pc[t] = "returned"
    /\ op' = [op EXCEPT ![t] = "Freeze"]
    /\ IF ~res[t].svc
         THEN /\ pc' = [pc EXCEPT ![t] = "panicked"]
              /\ eff' = [eff EXCEPT ![t] = <<>>]
         ELSE /\ eff' = [eff EXCEPT ![t] = <<"Signal">>]
              /\ UNCHANGED pc
    /\ UNCHANGED <<dir, res, msg, cause, attempts, probeOk, stops, stopRet>>
    /\ UNCHANGED <<envVars, procVars, streamVars>>

\* s.cmd is read through s: a nil receiver panics.  SIGSTOP suspends a
\* running child; the error of Signal is dropped.
Freeze(t) ==
    /\ pc[t] = "returned"
    /\ op' = [op EXCEPT ![t] = "Freeze"]
    /\ IF ~res[t].svc
         THEN /\ pc' = [pc EXCEPT ![t] = "panicked"]
              /\ eff' = [eff EXCEPT ![t] = <<>>]
              /\ UNCHANGED proc
         ELSE /\ eff' = [eff EXCEPT ![t] = <<"Signal">>]
              /\ proc' = [proc EXCEPT ![t] =
                            IF proc[t] = "listening" THEN "frozen" ELSE proc[t]]
              /\ UNCHANGED pc
    /\ UNCHANGED <<dir, res, msg, cause, attempts, probeOk, stops, stopRet>>
    /\ UNCHANGED <<envVars, pending, exitCode, written, streamVars>>

\* Continue that brings back a child that is gone
Continue_Revive(t) ==
    /\ pc[t] = "returned"
    /\ op' = [op EXCEPT ![t] = "Continue"]
    /\ IF ~res[t].svc
         THEN /\ pc' = [pc EXCEPT ![t] = "panicked"]
              /\ eff' = [eff EXCEPT ![t] = <<>>]
              /\ UNCHANGED proc
         ELSE /\ eff' = [eff EXCEPT ![t] = <<"Signal">>]
              /\ proc' = [proc EXCEPT ![t] =
                            IF proc[t] \in {"frozen", "reaped"}
                              THEN "listening" ELSE proc[t]]
              /\ UNCHANGED pc
    /\ UNCHANGED <<dir, res, msg, cause, attempts, probeOk, stops, stopRet>>
    /\ UNCHANGED <<envVars, pending, exitCode, written, streamVars>>

\* SIGCONT resumes a suspended child
Continue(t) ==
    /\ pc[t] = "returned"
    /\ op' = [op EXCEPT ![t] = "Continue"]
    /\ IF ~res[t].svc
         THEN /\ pc' = [pc EXCEPT ![t] = "panicked"]
              /\ eff' = [eff EXCEPT ![t] = <<>>]
              /\ UNCHANGED proc
         ELSE /\ eff' = [eff EXCEPT ![t] = <<"Signal">>]
              /\ proc' = [proc EXCEPT ![t] =
                            IF proc[t] = "frozen" THEN "listening" ELSE proc[t]]
              /\ UNCHANGED pc
    /\ UNCHANGED <<dir, res, msg, cause, attempts, probeOk, stops, stopRet>>
    /\ UNCHANGED <<envVars, pending, exitCode, written, streamVars>>

\* ------------------------------------------------------- the child process
\* redis-server binds its socket and starts answering
ProcListen(t) ==
    /\ proc[t] = "starting"
    /\ proc' = [proc EXCEPT ![t] = "listening"]
    /\ UNCHANGED <<callerVars, envVars, pending, exitCode, written, streamVars>>

\* redis-server writes a byte of log to stdout
ProcWriteOut(t) ==
    /\ proc[t] \in {"starting", "listening"}
    /\ written[t].out < MaxOut
    /\ written' = [written EXCEPT ![t].out = @ + 1]
    /\ UNCHANGED <<callerVars, envVars, proc, pending, exitCode, streamVars>>

\* redis-server writes a byte of log to stderr
ProcWriteErr(t) ==
    /\ proc[t] \in {"starting", "listening"}
    /\ written[t].err < MaxOut
    /\ written' = [written EXCEPT ![t].err = @ + 1]
    /\ UNCHANGED <<callerVars, envVars, proc, pending, exitCode, streamVars>>

\* redis-server gives up during startup (it cannot bind its socket)
ProcFail(t) ==
    /\ proc[t] = "starting"
    /\ proc' = [proc EXCEPT ![t] = "zombie"]
    /\ exitCode' = [exitCode EXCEPT ![t] = 1]
    /\ pending' = [pending EXCEPT ![t] = FALSE]
    /\ UNCHANGED <<callerVars, envVars, written, streamVars>>

\* a running redis-server acts on a delivered SIGINT and exits
ProcExit(t) ==
    /\ proc[t] \in {"starting", "listening"}
    /\ pending[t]
    /\ proc' = [proc EXCEPT ![t] = "zombie"]
    /\ \E c \in {0, 1} : exitCode' = [exitCode EXCEPT ![t] = c]
    /\ pending' = [pending EXCEPT ![t] = FALSE]
    /\ UNCHANGED <<callerVars, envVars, written, streamVars>>

\* ------------------------------------------------------------------- Next
Next ==
    \E t \in Callers :
        \/ StartTempDir(t)
        \/ StartMkdirSock(t)
        \/ StartWriteConfig(t)
        \/ StartFindBin(t)
        \/ StartStderrPipe(t)
        \/ StartStdoutPipe(t)
        \/ StartCmdStart(t)
        \/ StartProbe(t)
        \/ AbortSignal(t)
        \/ AbortWait(t)
        \/ AbortDrain(t)
        \/ StopCall(t)
        \/ StopWait(t)
        \/ Freeze(t)
        \/ Continue(t)
        \/ ProcListen(t)
        \/ ProcWriteOut(t)
        \/ ProcWriteErr(t)
        \/ ProcFail(t)
        \/ ProcExit(t)

Spec == Init /\ [][Next]_vars

\* ------------------------------------------------------ shared vocabulary
StartReturned(t) == res[t].err # "unset"
StartFailed(t) == StartReturned(t) /\ ~res[t].svc
Spawned(t) == proc[t] # "none"
\* Stop has been called on a non-nil handle and has returned
StopReturned(t) == res[t].svc /\ op[t] = "Stop" /\ pc[t] = "returned"

\* ------------------------------------------------------------------ claims
\* C1: Start hands out a service only after a PING of the probe loop was
\* answered, and then with a nil error; whenever it returns an error the
\* service is nil; and as long as the caller has done nothing else with the
\* handle, a PING through the returned pool is answered.
C1_ReadyOnlyAfterProbe ==
    \A t \in Callers :
        /\ res[t].svc => (probeOk[t] /\ res[t].err = "nil")
        /\ (StartReturned(t) /\ res[t].err # "nil") => ~res[t].svc
        /\ (res[t].svc /\ op[t] = "Start") => PingOk(proc[t])

C1_Witness ==
    \E t \in Callers :
        res[t].svc /\ op[t] = "Start" /\ pc[t] = "returned" /\ probeOk[t]

\* C2: whenever Start has returned an error, the workspace directory is gone,
\* no child is running or waiting to be reaped, and neither stream is open.
C2_ErrorReleasesAll ==
    \A t \in Callers :
        StartFailed(t) =>
            /\ dir[t] \notin fs
            /\ proc[t] \in {"none", "reaped"}
            /\ stderr[t].fd # "open"
            /\ stdout[t].fd # "open"

\* C3: with redis-server absent from the search path, a Start that gets as far
\* as the lookup returns the not-found error, has spawned nothing and has left
\* no workspace directory behind.
C3_NotFoundLeavesNothing ==
    \A t \in Callers :
        (~binOnPath /\ StartReturned(t)
                    /\ res[t].err \notin {"TempDir", "MkdirAll", "WriteFile"}) =>
            /\ res[t].err = "NotFound"
            /\ ~res[t].svc
            /\ ~Spawned(t)
            /\ dir[t] \notin fs

\* C4: a call of Stop on a nil handle returns nil in one step that sends no
\* signal, waits for nothing, closes no stream and removes no directory.
C4_StopNilNoAction ==
    [][\A t \in Callers :
         (pc[t] = "returned" /\ ~res[t].svc /\ stops'[t] # stops[t]) =>
            /\ stopRet'[t] = "nil"
            /\ eff'[t] = <<>>
            /\ pc'[t] = "returned"
            /\ fs' = fs
            /\ proc' = proc
            /\ pending' = pending
            /\ stderr' = stderr
            /\ stdout' = stdout]_vars

C4_Witness ==
    \E t \in Callers :
        /\ StartFailed(t) /\ op[t] = "Stop" /\ stopRet[t] = "nil"
        /\ dir[t] \in fs

\* C5: when Stop on a non-nil handle has returned, by any of its three exits
\* (signal failed, wait failed, clean), its last act was the removal of the
\* workspace directory, which no longer exists.
C5_StopAlwaysRemoves ==
    \A t \in Callers :
        StopReturned(t) =>
            /\ stopRet[t] \in {"ErrSignal", "ErrWait", "nil"}
            /\ Len(eff[t]) > 0
            /\ eff[t][Len(eff[t])] = "RemoveAll"
            /\ dir[t] \notin fs

C5_Witness ==
    \E t \in Callers : StopReturned(t) /\ stopRet[t] = "ErrWait"

\* C6 (as stated): after a successful Start, when the first Stop has returned
\* it has returned nil, the workspace directory does not exist, and the child
\* has been reaped, so that a further signal to it fails.
C6_StopReturnsNil ==
    \A t \in Callers :
        (StopReturned(t) /\ stops[t] = 1) =>
            /\ stopRet[t] = "nil"
            /\ dir[t] \notin fs
            /\ proc[t] = "reaped"
            /\ SignalFails(proc[t])

\* C6 (amended): after a successful Start, when the first Stop has returned
\* the workspace directory does not exist and the child has been reaped, so
\* that a further signal to it fails; Stop has returned nil exactly when the
\* child exited with status 0, and the error of Wait otherwise.
C6_StopReapsAndRemoves ==
    \A t \in Callers :
        (StopReturned(t) /\ stops[t] = 1) =>
            /\ dir[t] \notin fs
            /\ proc[t] = "reaped"
            /\ SignalFails(proc[t])
            /\ stopRet[t] = (IF exitCode[t] = 0 THEN "nil" ELSE "ErrWait")

C6_Witness ==
    \E t \in Callers :
        /\ StopReturned(t) /\ stops[t] = 1 /\ stopRet[t] = "nil"
        /\ dir[t] # NoDir /\ proc[t] = "reaped"

\* C7: a step in which Stop on a non-nil handle returns, returns the first
\* error of the sequence signal, wait: the call returns at once, with the
\* signal's error, exactly when the signal fails; the wait that follows a
\* delivered signal returns the error of Wait for a non-zero exit and nil
\* otherwise.
C7_FirstError ==
    [][\A t \in Callers :
         /\ (pc[t] = "returned" /\ res[t].svc /\ stops'[t] # stops[t]) =>
               IF SignalFails(proc[t])
                 THEN pc'[t] = "returned" /\ stopRet'[t] = "ErrSignal"
                 ELSE pc'[t] = "stopWait" /\ stopRet'[t] = "none"
         /\ (pc[t] = "stopWait" /\ pc'[t] = "returned") =>
               stopRet'[t] = (IF exitCode[t] # 0 THEN "ErrWait" ELSE "nil")]_vars

C7_Witness ==
    \E t \in Callers :
        StopReturned(t) /\ stops[t] = 2 /\ stopRet[t] = "ErrSignal"

\* the life of a spawned child's handle is over: abort has returned, or Stop
\* has returned on the service
LifecycleEnded(t) ==
    Spawned(t) /\ (res[t].err = "Abort" \/ (res[t].svc /\ stops[t] > 0
                                              /\ pc[t] = "returned"))

\* C8 (as stated): each stream of a spawned child is closed by Stop or abort
\* never twice, and exactly once when the lifecycle is over.
C8_ClosedExactlyOnce ==
    \A t \in Callers :
        Spawned(t) =>
            /\ stderr[t].closes <= 1 /\ stdout[t].closes <= 1
            /\ LifecycleEnded(t) => (stderr[t].closes = 1 /\ stdout[t].closes = 1)

\* C8 (amended): each stream of a spawned child is closed by Stop or abort
\* never twice; exactly once when abort has returned or a Stop has returned
\* nil; a Stop that returns an error closes neither, so that after a Stop
\* whose wait failed both have been closed zero times by this package (the
\* descriptors themselves were closed by Wait).
C8_ClosedOnceOnSuccess ==
    \A t \in Callers :
        Spawned(t) =>
            /\ stderr[t].closes <= 1 /\ stdout[t].closes <= 1
            /\ stderr[t].closes = stdout[t].closes
            /\ res[t].err = "Abort" => stderr[t].closes = 1
            /\ (LifecycleEnded(t) /\ res[t].svc) =>
                  /\ stderr[t].closes = (IF exitCode[t] = 0 THEN 1 ELSE 0)
                  /\ stderr[t].fd = "closed" /\ stdout[t].fd = "closed"
            /\ (StopReturned(t) /\ stopRet[t] = "nil") => stderr[t].closes = 1

C8_Witness ==
    \E t \in Callers :
        /\ StopReturned(t) /\ stops[t] = 2 /\ stopRet[t] = "ErrSignal"
        /\ exitCode[t] # 0
        /\ stderr[t].closes = 0 /\ stdout[t].closes = 0

\* C9: when the probe loop has run out and Start has returned, abort has done
\* signal, wait, drain, close in that order, and the error's text holds the
\* description, the probe's error and all that the child wrote to stdout and
\* stderr.
C9_AbortMessageComplete ==
    \A t \in Callers :
        (res[t].err = "Abort" /\ cause[t] = "PingFailed") =>
            /\ eff[t] = <<"Signal", "Wait", "ReadAll(stderr)", "ReadAll(stdout)",
                          "Close(stderr)", "Close(stdout)">>
            /\ msg[t].desc = "Failed to connect to DB"
            /\ msg[t].cause = "PingFailed"
            /\ msg[t].out = written[t].out
            /\ msg[t].err = written[t].err

\* C10: when cmd.Start has failed and Start is over, Start has returned the
\* error abort built and both streams are closed.
C10_SpawnFailureReturns ==
    \A t \in Callers :
        (cause[t] = "StartFailed" /\ pc[t] \notin {"abortSignal", "abortWait",
                                                   "abortDrain"}) =>
            /\ pc[t] = "returned"
            /\ res[t].err = "Abort"
            /\ ~res[t].svc
            /\ stderr[t].fd = "closed"
            /\ stdout[t].fd = "closed"

\* C11: on a ready service, the step of Freeze leaves the child unable to
\* answer a PING; while it is suspended no step other than Continue makes it
\* answer; the step of Continue on a suspended child makes it answer again,
\* and it goes on answering for as long as Continue is the owner's last call
\* and the child has not exited.
C11_FreezeBlocksContinueResumes ==
    [][\A t \in Callers :
         /\ (pc[t] = "returned" /\ res[t].svc /\ PingOk(proc[t])
               /\ op'[t] = "Freeze" /\ eff'[t] = <<"Signal">>
               /\ pc'[t] = "returned" /\ stops'[t] = stops[t]) =>
                 ~PingOk(proc'[t])
         /\ (proc[t] = "frozen" /\ op'[t] # "Continue") => ~PingOk(proc'[t])
         /\ (proc[t] = "frozen" /\ op'[t] = "Continue") => PingOk(proc'[t])
         /\ (res[t].svc /\ op[t] = "Continue" /\ stops[t] = 0) =>
                 PingOk(proc[t])]_vars

C11_Witness ==
    \E t \in Callers :
        /\ res[t].svc /\ op[t] = "Freeze" /\ proc[t] = "frozen"
        /\ pc[t] = "returned" /\ ~PingOk(proc[t])

\* C12: Freeze and Continue called on a handle that has no process (the nil
\* handle of a Start that failed) send no signal, change nothing and do not
\* fail: the caller is still running afterwards.
C12_NoOpWithoutProcess ==
    \A t \in Callers :
        (op[t] \in {"Freeze", "Continue"} /\ ~res[t].svc) =>
            /\ pc[t] = "returned"
            /\ eff[t] = <<>>

\* ------------------------------------------------- several Starts at once
\* Two owners, each with its own handle, run Start (and Stop) side by side.
\* What the children write, and Freeze and Continue, touch neither the
\* directory namespace nor the addresses and are left out of this
\* specification.
ParCallers == {1, 2}

InitPar ==
    /\ binOnPath \in BOOLEAN
    /\ fs = {}
    /\ used = {}
    /\ pc = [t \in ParCallers |-> "idle"]
    /\ op = [t \in ParCallers |-> "none"]
    /\ eff = [t \in ParCallers |-> <<>>]
    /\ dir = [t \in ParCallers |-> NoDir]
    /\ res = [t \in ParCallers |-> NoRes]
    /\ msg = [t \in ParCallers |-> NoMsg]
    /\ cause = [t \in ParCallers |-> "nil"]
    /\ attempts = [t \in ParCallers |-> 0]
    /\ probeOk = [t \in ParCallers |-> FALSE]
    /\ proc = [t \in ParCallers |-> "none"]
    /\ pending = [t \in ParCallers |-> FALSE]
    /\ exitCode = [t \in ParCallers |-> 0]
    /\ written = [t \in ParCallers |-> [out |-> 0, err |-> 0]]
    /\ stderr = [t \in ParCallers |-> NoStream]
    /\ stdout = [t \in ParCallers |-> NoStream]
    /\ stops = [t \in ParCallers |-> 0]
    /\ stopRet = [t \in ParCallers |-> "none"]
    /\ rt = NoRetry

NextPar ==
    \E t \in ParCallers :
        \/ StartTempDir(t)
        \/ StartMkdirSock(t)
        \/ StartWriteConfig(t)
        \/ StartFindBin(t)
        \/ StartStderrPipe(t)
        \/ StartStdoutPipe(t)
        \/ StartCmdStart(t)
        \/ StartProbe(t)
        \/ AbortSignal(t)
        \/ AbortWait(t)
        \/ AbortDrain(t)
        \/ StopCall(t)
        \/ StopWait(t)
        \/ ProcListen(t)
        \/ ProcFail(t)
        \/ ProcExit(t)

SpecPar == InitPar /\ [][NextPar]_vars

\* C13: of any two Starts that have made their workspace, whether they are
\* still running, have returned a service or have failed, the workspace
\* paths differ and the endpoint addresses differ.
C13_UniqueWorkspaces ==
    \A a, b \in ParCallers :
        (a # b /\ dir[a] # NoDir /\ dir[b] # NoDir) =>
            /\ dir[a] # dir[b]
            /\ Address(dir[a]) # Address(dir[b])

C13_Witness ==
    \A t \in ParCallers :
        res[t].svc /\ proc[t] = "listening" /\ dir[t] \in fs

\* C14: once Stop has returned on a service, its child is reaped and its
\* workspace is gone, and every later step (of Stop, Freeze, Continue or
\* anything else) leaves it so: the child stays reaped and answers nothing,
\* the workspace stays absent, and no call is left blocked.
C14_StoppedIsTerminal ==
    [][\A t \in Callers :
         (res[t].svc /\ stops[t] > 0 /\ pc[t] = "returned") =>
            /\ proc[t] = "reaped" /\ dir[t] \notin fs
            /\ proc'[t] = "reaped" /\ dir[t] \notin fs'
            /\ ~PingOk(proc'[t])
            /\ pc'[t] = "returned"]_vars

C14_Witness ==
    \E t \in Callers :
        /\ res[t].svc /\ stops[t] > 0 /\ pc[t] = "returned"
        /\ op[t] = "Continue" /\ proc[t] = "reaped" /\ dir[t] \notin fs

\* ------------------------------------------------------- retry on its own
\* retry(fn, attempts, interval) for any attempts, zero and negative included,
\* and any fn: each call of fn returns nil or one of two errors.
RetryArgs == (0 - 1)..MaxAttempts
FnErrs == {"e1", "e2"}

InitRetry ==
    /\ binOnPath = TRUE
    /\ fs = {}
    /\ used = {}
    /\ pc = [t \in Callers |-> "idle"]
    /\ op = [t \in Callers |-> "none"]
    /\ eff = [t \in Callers |-> <<>>]
    /\ dir = [t \in Callers |-> NoDir]
    /\ res = [t \in Callers |-> NoRes]
    /\ msg = [t \in Callers |-> NoMsg]
    /\ cause = [t \in Callers |-> "nil"]
    /\ attempts = [t \in Callers |-> 0]
    /\ probeOk = [t \in Callers |-> FALSE]
    /\ proc = [t \in Callers |-> "none"]
    /\ pending = [t \in Callers |-> FALSE]
    /\ exitCode = [t \in Callers |-> 0]
    /\ written = [t \in Callers |-> [out |-> 0, err |-> 0]]
    /\ stderr = [t \in Callers |-> NoStream]
    /\ stdout = [t \in Callers |-> NoStream]
    /\ stops = [t \in Callers |-> 0]
    /\ stopRet = [t \in Callers |-> "none"]
    /\ \E n \in RetryArgs :
         rt = [arg |-> n, attempts |-> n, log |-> <<>>, ret |-> "running"]

\* one round of retry's loop: err := fn(); return nil, or count the attempt
\* and return err, or time.Sleep(interval) and go round again
RetryCall ==
    /\ rt.ret = "running"
    /\ \E e \in {"nil"} \cup FnErrs :
         LET r == RetryStep(e = "nil", rt.attempts)
         IN  CASE r = "return_nil" ->
                    rt' = [rt EXCEPT !.log = Append(@, e), !.ret = "nil"]
               [] r = "return_err" ->
                    rt' = [rt EXCEPT !.log = Append(@, e), !.ret = e,
                                     !.attempts = @ - 1]
               [] OTHER ->
                    rt' = [rt EXCEPT !.log = @ \o <<e, "sleep">>,
                                     !.attempts = @ - 1]
    /\ UNCHANGED <<callerVars, procVars, streamVars, binOnPath, fs, used>>

NextRetry == RetryCall

SpecRetry == InitRetry /\ [][NextRetry]_vars

IsCall(x) == x # "sleep"
\* the results of the calls of fn so far, in order
Calls == SelectSeq(rt.log, IsCall)
\* the calls retry may make at most: attempts, and one when attempts <= 1
Budget == IF rt.arg <= 1 THEN 1 ELSE rt.arg

\* C15: retry never calls fn again after a call that returned nil, and never
\* more than `attempts` times (once when attempts <= 1), so it terminates;
\* it sleeps once after every call but the last; when it has returned, it
\* has returned nil if the last call returned nil, and otherwise it has made
\* exactly `attempts` calls (one when attempts <= 1) and returned the error
\* of the last of them.
C15_RetryContract ==
    LET k == Len(Calls)
    IN  /\ k <= Budget
        /\ \A i \in 1..(k - 1) : Calls[i] # "nil"
        /\ \A i \in 1..Len(rt.log) :
             (rt.log[i] = "sleep") <=> (i % 2 = 0)
        /\ rt.ret = "running" =>
             /\ k < Budget
             /\ Len(rt.log) = 2 * k
        /\ rt.ret # "running" =>
             /\ k >= 1
             /\ Len(rt.log) = 2 * k - 1
             /\ rt.ret = Calls[k]
             /\ Calls[k] # "nil" => k = Budget

C15_Witness ==
    /\ rt.ret \in FnErrs
    /\ rt.arg = 3
    /\ Len(Calls) = 3
    /\ Calls[3] = rt.ret

\* C16: while Start is inside abort (about to signal, waiting, or draining),
\* a process has been spawned: the handle abort signals and waits on exists.
C16_AbortOnlyAfterSpawn ==
    \A t \in Callers :
        pc[t] \in {"abortSignal", "abortWait", "abortDrain"} => Spawned(t)

\* C18: a call of Stop on a non-nil handle whose signal fails returns that
\* error in the same step, having waited for nothing and closed nothing: of
\* the process, the streams and the file system the step changes only the
\* workspace directory, which it removes.
C18_SignalFailureOnlyRemoves ==
    [][\A t \in Callers :
         (pc[t] = "returned" /\ res[t].svc /\ stops'[t] # stops[t]
                             /\ SignalFails(proc[t])) =>
            /\ stopRet'[t] = "ErrSignal"
            /\ pc'[t] = "returned"
            /\ eff'[t] = <<"Signal", "RemoveAll">>
            /\ fs' = fs \ {dir[t]}
            /\ used' = used
            /\ proc' = proc /\ pending' = pending /\ exitCode' = exitCode
            /\ stderr' = stderr /\ stdout' = stdout
            /\ res' = res /\ dir' = dir]_vars

C18_Witness ==
    \E t \in Callers :
        /\ StopReturned(t) /\ stopRet[t] = "ErrSignal"
        /\ eff[t] = <<"Signal", "RemoveAll">>
        /\ proc[t] = "reaped" /\ dir[t] \notin fs

\* C19: once a Stop has waited for the child of a service (the child is
\* reaped), no later step waits for it again or touches the streams, and
\* every later call of Stop returns the signal's error in the step of the
\* call, before Wait and Close.
C19_WaitedAtMostOnce ==
    [][\A t \in Callers :
         (res[t].svc /\ proc[t] = "reaped") =>
            /\ pc'[t] # "stopWait"
            /\ proc'[t] = "reaped"
            /\ stderr'[t] = stderr[t] /\ stdout'[t] = stdout[t]
            /\ stops'[t] # stops[t] =>
                 (stopRet'[t] = "ErrSignal" /\ pc'[t] = "returned")]_vars

C19_Witness ==
    \E t \in Callers :
        /\ StopReturned(t) /\ stops[t] = 2 /\ stopRet[t] = "ErrSignal"
        /\ exitCode[t] = 0 /\ stderr[t].closes = 1 /\ stdout[t].closes = 1

\* ------------------------------------------------------------- progress
\* A call of Stop that is not blocked goes on (Wait returns once the child
\* has exited), and a running child acts on a delivered SIGINT by exiting.
\* Nothing obliges the owner to call anything.
FairSpec ==
    /\ Spec
    /\ \A t \in Callers : WF_vars(StopWait(t)) /\ WF_vars(ProcExit(t))

\* C17: a Stop called on a ready service, whether its child is running or
\* suspended by Freeze, eventually returns.
C17_StopEventuallyReturns ==
    \A t \in Callers : (pc[t] = "stopWait") ~> (pc[t] = "returned")

\* what does hold: a Stop called while the child is running returns
StopOfRunningReturns ==
    \A t \in Callers :
        (pc[t] = "stopWait" /\ proc[t] # "frozen") ~> (pc[t] = "returned")

====
